---- MODULE Spec2Model ----
(***************************************************************************)
(* Model of backend/utils.py: the module globals SYSTEM_PROMPT and         *)
(* MODEL_NAME and the function get_agent_response, executed statement by   *)
(* statement over a heap of Python list objects, so that aliasing          *)
(* (current_messages = messages) and list identity are part of the state.  *)
(*                                                                         *)
(* A str is a sequence of one-character strings.  A message dict is a      *)
(* record [role, content]; the code never writes to a message dict, so     *)
(* dicts are values.  A list object is a heap cell holding a sequence.     *)
(* litellm.completion is the environment: it either raises or returns a    *)
(* response object, chosen nondeterministically.                           *)
(***************************************************************************)
EXTENDS Naturals, Sequences, FiniteSets

VARIABLES
    SYSTEM_PROMPT,            \* module global, utils.py line 20
    MODEL_NAME,               \* module global, utils.py line 103
    heap,                     \* list objects: heap[id] is the list's elements
    pc,                       \* per invocation: position in get_agent_response
    messages,                 \* per invocation: the parameter (a list id)
    current_messages,         \* per frame: local of line 125 (a list id)
    completion,               \* per invocation: local of line 131
    assistant_reply_content,  \* per invocation: local of line 136
    updated_messages,         \* per invocation: local of line 142 / return value
    fault,                    \* per invocation: exception leaving the function
    provider_log,             \* calls litellm.completion has received
    outcome,                  \* history: what litellm.completion raised, if so
    input,                    \* history: the argument's elements at call entry
    config0,                  \* history: the globals after module import
    turn,                     \* history: number of the invocation in its session
    trail                     \* history: conversations seen so far in the session

vars == <<SYSTEM_PROMPT, MODEL_NAME, heap, pc, messages, current_messages,
          completion, assistant_reply_content, updated_messages, fault,
          provider_log, outcome, input, config0, turn, trail>>

(* ------------------------------ bounds --------------------------------- *)

MaxHistLen == 2        \* longest input history of a single call
MaxReplyLen == 3       \* longest provider reply text of a single call
MaxConcHistLen == 1    \* longest input history of a concurrent call
MaxConcReplyLen == 1   \* longest provider reply text of a concurrent call
MaxSessHistLen == 2    \* longest initial history of a session
MaxTurns == 2          \* invocations in a session
MaxUserMsgs == 1       \* user messages the caller adds between two turns

(* ------------------------------ values --------------------------------- *)

NoRef == 0             \* None where a list id is expected
NoFault == "NoFault"

Whitespace == {" ", "\n"}
Chars == {"a"} \cup Whitespace
Roles == {"system", "user", "assistant"}

\* The persona text of lines 20-100, abstracted to a short text.
PromptText == <<"P">>
\* os.environ.get("MODEL_NAME", "gpt-4o-mini"): unset, or set by the host.
ModelNames == {"gpt-4o-mini", "env-model"}

Texts(n) == UNION {[1..k -> Chars] : k \in 0..n}
Messages(contents) == [role : Roles, content : contents]
Histories(msgs, n) == UNION {[1..k -> msgs] : k \in 0..n}

\* Exceptions litellm.completion raises (network, authentication).
ProviderFaults == {"APIConnectionError", "AuthenticationError"}

\* completion["choices"][i]["message"]["content"]: a str or None.
NoneContent == [type |-> "NoneType", value |-> <<>>]
StrContent(t) == [type |-> "str", value |-> t]
Candidate(c) == [message |-> [content |-> c]]
Contents(texts) == {NoneContent} \cup {StrContent(t) : t \in texts}
\* Response objects with no candidate or one candidate.
OneCandidate(texts) ==
    {[choices |-> <<>>]} \cup {[choices |-> <<Candidate(c)>>] : c \in Contents(texts)}
\* Response objects with no candidate, one candidate, or two candidates.
Responses(texts) ==
    OneCandidate(texts)
    \cup {[choices |-> <<Candidate(c), Candidate(StrContent(<<"a", "a">>))>>]
            : c \in Contents(texts)}
\* The local completion before line 131 has assigned it.
NoCompletion ==
    [choices |-> <<Candidate([type |-> "unassigned", value |-> <<>>])>>]

(* --------------------------- pure operators ---------------------------- *)

\* str.strip(): drop leading and trailing whitespace, keep the inside.
RECURSIVE lstrip(_)
lstrip(s) == IF s # <<>> /\ Head(s) \in Whitespace THEN lstrip(Tail(s)) ELSE s

RECURSIVE rstrip(_)
rstrip(s) ==
    IF s # <<>> /\ s[Len(s)] \in Whitespace
    THEN rstrip(SubSeq(s, 1, Len(s) - 1))
    ELSE s

\* A strip that forgets the trailing side.
strip_leading_only(s) == lstrip(s)

strip(s) == rstrip(lstrip(s))

\* {"role": "system", "content": SYSTEM_PROMPT}
SystemMessage == [role |-> "system", content |-> SYSTEM_PROMPT]

\* {"role": "assistant", "content": assistant_reply_content}
AssistantMessage(text) == [role |-> "assistant", content |-> text]

\* Tests that inject on every call, when no message at all is a system
\* message, and when the last message is not a system message.
NeedsSystemPromptAlways(msgs) == TRUE
NeedsSystemPromptNowhere(msgs) == \A i \in 1..Len(msgs) : msgs[i].role # "system"
NeedsSystemPromptLast(msgs) == msgs = <<>> \/ msgs[Len(msgs)].role # "system"

\* not messages or messages[0]["role"] != "system"
NeedsSystemPrompt(msgs) == msgs = <<>> \/ msgs[1].role # "system"

\* A prepend that puts the system message at the end.
WithSystemPromptLast(msgs) == msgs \o <<SystemMessage>>

\* [{"role": "system", "content": SYSTEM_PROMPT}] + messages
WithSystemPrompt(msgs) == <<SystemMessage>> \o msgs

\* list + list builds a new list object: the heap grows by one cell.
NewList(h, elems) == [heap |-> Append(h, elems), ref |-> Len(h) + 1]

\* Lines 126-129: the list current_messages is bound to. m is the id of the
\* parameter's list: a new list when the prompt is injected, else m itself.
Normalize(h, m) ==
    IF NeedsSystemPrompt(h[m]) THEN NewList(h, WithSystemPrompt(h[m]))
    ELSE [heap |-> h, ref |-> m]

\* Extraction that answers "" for a missing reply, and extraction that
\* rejects an empty reply.
ExtractWithDefault(c) ==
    IF c.choices = <<>> \/ c.choices[1].message.content.type # "str"
    THEN [fault |-> NoFault, text |-> <<>>]
    ELSE [fault |-> NoFault, text |-> strip(c.choices[1].message.content.value)]
ExtractRejectEmpty(c) ==
    IF c.choices = <<>> THEN [fault |-> "IndexError", text |-> <<>>]
    ELSE IF c.choices[1].message.content.type # "str"
    THEN [fault |-> "AttributeError", text |-> <<>>]
    ELSE IF strip(c.choices[1].message.content.value) = <<>>
    THEN [fault |-> "ValueError", text |-> <<>>]
    ELSE [fault |-> NoFault, text |-> strip(c.choices[1].message.content.value)]

\* Lines 136-139: completion["choices"][0]["message"]["content"].strip().
\* [0] of an empty list raises IndexError; None has no strip: AttributeError.
Extract(c) ==
    IF c.choices = <<>> THEN [fault |-> "IndexError", text |-> <<>>]
    ELSE IF c.choices[1].message.content.type # "str"
    THEN [fault |-> "AttributeError", text |-> <<>>]
    ELSE [fault |-> NoFault, text |-> strip(c.choices[1].message.content.value)]

\* An append that extends the list in place (list.append) and returns it.
ConcatInPlace(h, cm, text) ==
    [heap |-> [h EXCEPT ![cm] = Append(@, AssistantMessage(text))], ref |-> cm]

\* Line 142: current_messages + [{"role": "assistant", ...}], a new list.
Concat(h, cm, text) == NewList(h, h[cm] \o <<AssistantMessage(text)>>)

\* All invocations sharing one frame (current_messages as a module global).
SharedFrame(p) == 1

\* The frame holding the locals of invocation p: each call has its own.
Frame(p) == p

\* Arguments that pass the raw parameter instead of the normalized list.
CompletionArgsRaw(p) == [model |-> MODEL_NAME, messages |-> messages[p]]

\* Lines 131-134: model=MODEL_NAME, messages=current_messages.
CompletionArgs(p) ==
    [model |-> MODEL_NAME, messages |-> current_messages[Frame(p)]]

(* ------------------------------- Init ---------------------------------- *)

\* Module import (lines 16-103) has run and every invocation in C has been
\* entered with its argument bound: heap[p] is the list passed by caller p.
Entered(C) ==
    /\ SYSTEM_PROMPT = PromptText
    /\ MODEL_NAME \in ModelNames
    /\ config0 = <<SYSTEM_PROMPT, MODEL_NAME>>
    /\ pc = [p \in C |-> "called"]
    /\ messages = [p \in C |-> p]
    /\ current_messages = [p \in C |-> NoRef]
    /\ completion = [p \in C |-> NoCompletion]
    /\ assistant_reply_content = [p \in C |-> <<>>]
    /\ updated_messages = [p \in C |-> NoRef]
    /\ fault = [p \in C |-> NoFault]
    /\ outcome = [p \in C |-> NoFault]
    /\ provider_log = <<>>
    /\ input = [p \in C |-> heap[p]]
    /\ turn = [p \in C |-> 1]
    /\ trail = [p \in C |-> <<heap[p]>>]

\* The text caller p writes in its own messages.
CallerText(p) == IF p = 1 THEN <<"x">> ELSE <<"y">>

\* Histories of caller p whose first message has any role and whose later
\* messages are user turns.
UserTurns(p, n) ==
    {h \in Histories(Messages({CallerText(p)}), n) :
        \A i \in 2..Len(h) : h[i].role = "user"}

\* One call on any history; a message's content may equal the persona text.
Init ==
    /\ \E h \in Histories(Messages({CallerText(1), PromptText}), MaxHistLen) :
          heap = <<h>>
    /\ Entered({1})

\* Two calls in flight, each on its own history object.
InitConc ==
    /\ \E h1 \in UserTurns(1, MaxConcHistLen), h2 \in UserTurns(2, MaxConcHistLen) :
          heap = <<h1, h2>>
    /\ Entered({1, 2})

\* The first call of a multi-turn session.
InitSession ==
    /\ \E h \in Histories(Messages({CallerText(1), PromptText}), MaxSessHistLen) :
          heap = <<h>>
    /\ Entered({1})

(* ------------------------------ actions -------------------------------- *)

\* Lines 126-129: bind current_messages.
NormalizeStep(p) ==
    /\ pc[p] = "called"
    /\ LET n == Normalize(heap, messages[p])
       IN  /\ heap' = n.heap
           /\ current_messages' = [current_messages EXCEPT ![Frame(p)] = n.ref]
    /\ pc' = [pc EXCEPT ![p] = "normalized"]
    /\ UNCHANGED <<SYSTEM_PROMPT, MODEL_NAME, messages, completion,
                   assistant_reply_content, updated_messages, fault,
                   provider_log, outcome, input, config0, turn, trail>>

\* Line 131: litellm.completion is entered with the arguments; the provider
\* holds the list object it was given until it answers.
Invoke(p) ==
    /\ pc[p] = "normalized"
    /\ LET a == CompletionArgs(p)
       IN  provider_log' = Append(provider_log,
               [call |-> p, turn |-> turn[p], model |-> a.model,
                messages |-> a.messages, seen |-> heap[a.messages]])
    /\ pc' = [pc EXCEPT ![p] = "awaiting"]
    /\ UNCHANGED <<SYSTEM_PROMPT, MODEL_NAME, heap, messages, current_messages,
                   completion, assistant_reply_content, updated_messages, fault,
                   outcome, input, config0, turn, trail>>

\* Line 131: litellm.completion returns a response object.
ProviderReturns(p, responses) ==
    /\ pc[p] = "awaiting"
    /\ \E r \in responses : completion' = [completion EXCEPT ![p] = r]
    /\ pc' = [pc EXCEPT ![p] = "completed"]
    /\ UNCHANGED <<SYSTEM_PROMPT, MODEL_NAME, heap, messages, current_messages,
                   assistant_reply_content, updated_messages, fault,
                   provider_log, outcome, input, config0, turn, trail>>

\* Line 131: litellm.completion raises; no handler encloses the call, so the
\* exception leaves get_agent_response.
ProviderRaises(p) ==
    /\ pc[p] = "awaiting"
    /\ \E f \in ProviderFaults :
          /\ outcome' = [outcome EXCEPT ![p] = f]
          /\ fault' = [fault EXCEPT ![p] = f]
    /\ pc' = [pc EXCEPT ![p] = "raised"]
    /\ UNCHANGED <<SYSTEM_PROMPT, MODEL_NAME, heap, messages, current_messages,
                   completion, assistant_reply_content, updated_messages,
                   provider_log, input, config0, turn, trail>>

\* Lines 136-139: bind assistant_reply_content, or leave by the exception the
\* subscript or the attribute lookup raises.
ExtractStep(p) ==
    /\ pc[p] = "completed"
    /\ LET e == Extract(completion[p])
       IN  IF e.fault # NoFault
           THEN /\ fault' = [fault EXCEPT ![p] = e.fault]
                /\ pc' = [pc EXCEPT ![p] = "raised"]
                /\ UNCHANGED assistant_reply_content
           ELSE /\ assistant_reply_content' =
                      [assistant_reply_content EXCEPT ![p] = e.text]
                /\ pc' = [pc EXCEPT ![p] = "extracted"]
                /\ UNCHANGED fault
    /\ UNCHANGED <<SYSTEM_PROMPT, MODEL_NAME, heap, messages, current_messages,
                   completion, updated_messages, provider_log, outcome, input,
                   config0, turn, trail>>

\* Lines 142-143: build updated_messages and return it.
Return(p) ==
    /\ pc[p] = "extracted"
    /\ LET c == Concat(heap, current_messages[Frame(p)],
                       assistant_reply_content[p])
       IN  /\ heap' = c.heap
           /\ updated_messages' = [updated_messages EXCEPT ![p] = c.ref]
           /\ trail' = [trail EXCEPT ![p] = Append(@, c.heap[c.ref])]
    /\ pc' = [pc EXCEPT ![p] = "returned"]
    /\ UNCHANGED <<SYSTEM_PROMPT, MODEL_NAME, messages, current_messages,
                   completion, assistant_reply_content, fault, provider_log,
                   outcome, input, config0, turn>>

\* The caller of a session: it copies the returned conversation, adds its
\* user messages at the end and calls get_agent_response again (line 108).
NextTurn(p) ==
    /\ pc[p] = "returned"
    /\ turn[p] < MaxTurns
    /\ \E k \in 1..MaxUserMsgs :
          LET us == [i \in 1..k |-> [role |-> "user", content |-> CallerText(p)]]
              n == NewList(heap, heap[updated_messages[p]] \o us)
          IN  /\ heap' = n.heap
              /\ messages' = [messages EXCEPT ![p] = n.ref]
              /\ input' = [input EXCEPT ![p] = n.heap[n.ref]]
              /\ trail' = [trail EXCEPT ![p] = Append(@, n.heap[n.ref])]
    /\ turn' = [turn EXCEPT ![p] = @ + 1]
    /\ pc' = [pc EXCEPT ![p] = "called"]
    /\ current_messages' = [current_messages EXCEPT ![Frame(p)] = NoRef]
    /\ completion' = [completion EXCEPT ![p] = NoCompletion]
    /\ assistant_reply_content' = [assistant_reply_content EXCEPT ![p] = <<>>]
    /\ updated_messages' = [updated_messages EXCEPT ![p] = NoRef]
    /\ UNCHANGED <<SYSTEM_PROMPT, MODEL_NAME, fault, provider_log, outcome,
                   config0>>

Calls == DOMAIN pc

Next ==
    \/ \E p \in Calls : NormalizeStep(p)
    \/ \E p \in Calls : Invoke(p)
    \/ \E p \in Calls : ProviderReturns(p, Responses(Texts(MaxReplyLen)))
    \/ \E p \in Calls : ProviderRaises(p)
    \/ \E p \in Calls : ExtractStep(p)
    \/ \E p \in Calls : Return(p)

\* Reply texts of concurrent calls: over a letter and a blank.
ConcTexts == UNION {[1..k -> {"a", " "}] : k \in 0..MaxConcReplyLen}

NextConc ==
    \/ \E p \in Calls : NormalizeStep(p)
    \/ \E p \in Calls : Invoke(p)
    \/ \E p \in Calls : ProviderReturns(p, OneCandidate(ConcTexts))
    \/ \E p \in Calls : ProviderRaises(p)
    \/ \E p \in Calls : ExtractStep(p)
    \/ \E p \in Calls : Return(p)

\* Reply texts of a session: with and without surrounding whitespace.
SessionTexts == {<<"a">>, <<" ", "a", "a", "\n">>}

NextSession ==
    \/ \E p \in Calls : NormalizeStep(p)
    \/ \E p \in Calls : Invoke(p)
    \/ \E p \in Calls : ProviderReturns(p, OneCandidate(SessionTexts))
    \/ \E p \in Calls : ProviderRaises(p)
    \/ \E p \in Calls : ExtractStep(p)
    \/ \E p \in Calls : Return(p)
    \/ \E p \in Calls : NextTurn(p)

Spec == Init /\ [][Next]_vars
SpecConc == InitConc /\ [][NextConc]_vars
SpecSession == InitSession /\ [][NextSession]_vars

(* ------------------------ vocabulary of the claims --------------------- *)

\* The calls litellm.completion received from the current invocation of p.
Submitted(p) ==
    SelectSeq(provider_log, LAMBDA e : e.call = p /\ e.turn = turn[p])

\* Invocation p has gone past line 131's call.
PastInvoke(p) == pc[p] \notin {"called", "normalized"}

\* The normalized sequence the specification prescribes for history h.
ExpectedNormalized(h) ==
    IF h = <<>> \/ h[1].role # "system"
    THEN <<[role |-> "system", content |-> SYSTEM_PROMPT]>> \o h
    ELSE h

\* t is r without its leading and trailing whitespace.
IsStripOf(t, r) ==
    /\ t = <<>> \/ (t[1] \notin Whitespace /\ t[Len(t)] \notin Whitespace)
    /\ \E i \in 0..Len(r) :
          /\ i + Len(t) <= Len(r)
          /\ SubSeq(r, i + 1, i + Len(t)) = t
          /\ \A k \in 1..Len(r) : (k <= i \/ k > i + Len(t)) => r[k] \in Whitespace

\* The response's first candidate carries text content.
HasText(c) == c.choices # <<>> /\ c.choices[1].message.content.type = "str"
\* The reply text of a response that has one.
ReplyText(c) == c.choices[1].message.content.value

\* Every list object is p's input or its input behind one system message.
NothingAppended(p) ==
    \A i \in 1..Len(heap) :
        \/ heap[i] = input[p]
        \/ heap[i] = <<[role |-> "system", content |-> SYSTEM_PROMPT]>> \o input[p]

CountRole(h, r) == Cardinality({i \in 1..Len(h) : h[i].role = r})
IsPrefix(a, b) == Len(a) <= Len(b) /\ SubSeq(b, 1, Len(a)) = a

(* ------------------------------- claims -------------------------------- *)

\* C1: for a history that is empty or does not start with a system message,
\* the sequence submitted to the provider is one message
\* {system, SYSTEM_PROMPT} followed by the whole history in its order, so
\* its length is len(history) + 1.
C1_InjectionWhenMissing ==
    \A p \in Calls :
        (PastInvoke(p) /\ (input[p] = <<>> \/ input[p][1].role # "system")) =>
            /\ Len(Submitted(p)) = 1
            /\ LET sent == Submitted(p)[1].seen
               IN  /\ Len(sent) = Len(input[p]) + 1
                   /\ sent[1] = [role |-> "system", content |-> SYSTEM_PROMPT]
                   /\ SubSeq(sent, 2, Len(sent)) = input[p]

C1_Witness ==
    \E p \in Calls :
        /\ PastInvoke(p)
        /\ Len(input[p]) = 2
        /\ input[p][1].role = "user"
        /\ input[p][2].role = "system"
        /\ Len(Submitted(p)) = 1

\* C2: for a history that starts with a system message, no second system
\* message is inserted: the sequence submitted to the provider equals the
\* history element for element.
C2_NoSecondSystemMessage ==
    \A p \in Calls :
        (PastInvoke(p) /\ input[p] # <<>> /\ input[p][1].role = "system") =>
            /\ Len(Submitted(p)) = 1
            /\ Submitted(p)[1].seen = input[p]
            /\ Len(Submitted(p)[1].seen) = Len(input[p])

C2_Witness ==
    \E p \in Calls :
        /\ PastInvoke(p)
        /\ Len(input[p]) = 2
        /\ input[p][1] = [role |-> "system", content |-> CallerText(p)]
        /\ Len(Submitted(p)) = 1

\* C3: a successful call returns the normalized sequence with exactly one
\* message appended: the last element is {assistant, R stripped of leading
\* and trailing whitespace}, the elements before it are the normalized
\* sequence in order, and the length is the normalized length plus one.
C3_AppendOnlyGrowth ==
    \A p \in Calls :
        pc[p] = "returned" =>
            LET out == heap[updated_messages[p]]
                norm == ExpectedNormalized(input[p])
            IN  /\ HasText(completion[p])
                /\ Len(out) = Len(norm) + 1
                /\ SubSeq(out, 1, Len(norm)) = norm
                /\ out[Len(out)].role = "assistant"
                /\ IsStripOf(out[Len(out)].content, ReplyText(completion[p]))

C3_Witness ==
    \E p \in Calls :
        /\ pc[p] = "returned"
        /\ ReplyText(completion[p]) = <<" ", "a", "\n">>
        /\ heap[updated_messages[p]][Len(heap[updated_messages[p]])].content = <<"a">>
        /\ Len(input[p]) = 2

\* C4: when the provider fails, by raising or by a response with no first
\* candidate carrying text content, the call returns no conversation: the
\* fault leaves the function as it was raised, and no assistant message is
\* appended to any list.
C4_FailurePropagation ==
    \A p \in Calls :
        /\ outcome[p] # NoFault =>
              /\ pc[p] = "raised"
              /\ fault[p] = outcome[p]
              /\ updated_messages[p] = NoRef
              /\ NothingAppended(p)
        /\ (pc[p] \in {"completed", "extracted", "returned", "raised"}
            /\ outcome[p] = NoFault /\ ~HasText(completion[p])) =>
              /\ pc[p] \in {"completed", "raised"}
              /\ pc[p] = "raised" =>
                    fault[p] = (IF completion[p].choices = <<>>
                                THEN "IndexError" ELSE "AttributeError")
              /\ updated_messages[p] = NoRef
              /\ NothingAppended(p)

C4_Witness ==
    \E p \in Calls :
        /\ pc[p] = "raised"
        /\ outcome[p] = NoFault
        /\ Len(completion[p].choices) = 2
        /\ completion[p].choices[1].message.content = NoneContent
        /\ fault[p] = "AttributeError"
        /\ Len(input[p]) = 2

C4_WitnessProviderRaised ==
    \E p \in Calls : pc[p] = "raised" /\ outcome[p] = "AuthenticationError"

\* C5: every invocation makes exactly one call to the provider, whether it
\* succeeds or fails; the call carries MODEL_NAME and the normalized
\* sequence, and the list it carries never receives the reply.
C5_ExactlyOneProviderCall ==
    \A p \in Calls :
        /\ Len(Submitted(p)) = (IF PastInvoke(p) THEN 1 ELSE 0)
        /\ \A i \in 1..Len(Submitted(p)) :
              LET e == Submitted(p)[i]
              IN  /\ e.model = MODEL_NAME
                  /\ e.seen = ExpectedNormalized(input[p])
                  /\ heap[e.messages] = e.seen
        /\ pc[p] = "awaiting" =>
              assistant_reply_content[p] = <<>> /\ updated_messages[p] = NoRef

C5_Witness ==
    \E p \in Calls :
        /\ pc[p] = "returned"
        /\ Len(Submitted(p)) = 1
        /\ input[p] # <<>> /\ input[p][1].role = "system"
        /\ assistant_reply_content[p] # <<>>

C5_WitnessFailed ==
    \E p \in Calls : pc[p] = "raised" /\ Len(Submitted(p)) = 1

\* C6 as stated: for every history the submitted sequence begins with
\* exactly one system message: its first element is a system message and
\* its second element, if any, is not.
C6_ExactlyOneLeadingSystem ==
    \A p \in Calls : \A i \in 1..Len(Submitted(p)) :
        LET sent == Submitted(p)[i].seen
        IN  /\ sent # <<>>
            /\ sent[1].role = "system"
            /\ Len(sent) >= 2 => sent[2].role # "system"

\* C6 amended: the submitted sequence begins with a system message, and its
\* second element is a system message exactly when the history itself
\* begins with two system messages.
C6_LeadingSystemAmended ==
    \A p \in Calls :
        /\ PastInvoke(p) => Len(Submitted(p)) = 1
        /\ \A i \in 1..Len(Submitted(p)) :
            LET sent == Submitted(p)[i].seen
            IN  /\ sent # <<>>
                /\ sent[1].role = "system"
                /\ (Len(sent) >= 2 /\ sent[2].role = "system") <=>
                      (/\ Len(input[p]) >= 2
                       /\ input[p][1].role = "system"
                       /\ input[p][2].role = "system")

C6_Witness ==
    \E p \in Calls :
        /\ Len(Submitted(p)) = 1
        /\ Len(input[p]) = 2
        /\ input[p][1].role = "system"
        /\ input[p][2].role = "system"
        /\ Submitted(p)[1].seen[2].role = "system"

\* C7 as stated: with the empty string as the first candidate's content
\* the call fails instead of returning a conversation.
C7_EmptyReplyFails ==
    \A p \in Calls :
        (HasText(completion[p]) /\ ReplyText(completion[p]) = <<>>) =>
            pc[p] # "returned"

\* C7 amended: with the empty string as the first candidate's content the
\* call does not fail: it returns the normalized sequence followed by an
\* assistant message whose content is the empty string.
C7_EmptyReplyReturned ==
    \A p \in Calls :
        (HasText(completion[p]) /\ ReplyText(completion[p]) = <<>>) =>
            /\ pc[p] \in {"completed", "extracted", "returned"}
            /\ fault[p] = NoFault
            /\ pc[p] = "returned" =>
                  heap[updated_messages[p]] =
                      ExpectedNormalized(input[p])
                          \o <<[role |-> "assistant", content |-> <<>>]>>

C7_Witness ==
    \E p \in Calls :
        /\ pc[p] = "returned"
        /\ completion[p] = [choices |-> <<Candidate(StrContent(<<>>))>>]
        /\ heap[updated_messages[p]][Len(heap[updated_messages[p]])]
               = [role |-> "assistant", content |-> <<>>]

\* C8: in every outcome the caller's input list keeps its length and its
\* messages in their order, the returned conversation is another list
\* object than the input, and SYSTEM_PROMPT and MODEL_NAME are unchanged.
C8_InputUnchanged ==
    \A p \in Calls :
        /\ heap[messages[p]] = input[p]
        /\ pc[p] = "returned" =>
              /\ updated_messages[p] \in 1..Len(heap)
              /\ updated_messages[p] # messages[p]
        /\ pc[p] # "returned" => updated_messages[p] = NoRef
        /\ <<SYSTEM_PROMPT, MODEL_NAME>> = config0

C8_Witness ==
    \E p \in Calls :
        /\ pc[p] = "returned"
        /\ current_messages[p] = messages[p]
        /\ Len(input[p]) = 2
        /\ Len(heap[updated_messages[p]]) = 3

C8_WitnessFailed ==
    \E p \in Calls : pc[p] = "raised" /\ current_messages[p] # messages[p]

\* C9: when calls run concurrently on separate histories, under every
\* interleaving each call returns what it would return alone on its own
\* history and its own reply, holds no message of another call's history,
\* fails only on its own provider failure, and the persona configuration
\* is never written.
C9_ConcurrentCallsIndependent ==
    /\ <<SYSTEM_PROMPT, MODEL_NAME>> = config0
    /\ \A p \in Calls :
        /\ heap[messages[p]] = input[p]
        /\ pc[p] = "returned" =>
              LET out == heap[updated_messages[p]]
                  norm == ExpectedNormalized(input[p])
              IN  /\ HasText(completion[p])
                  /\ Len(out) = Len(norm) + 1
                  /\ SubSeq(out, 1, Len(norm)) = norm
                  /\ out[Len(out)].role = "assistant"
                  /\ IsStripOf(out[Len(out)].content, ReplyText(completion[p]))
                  /\ \A q \in Calls \ {p} : \A i \in 1..Len(out) :
                        out[i].content # CallerText(q)
        /\ pc[p] = "raised" =>
              /\ outcome[p] # NoFault \/ ~HasText(completion[p])
              /\ updated_messages[p] = NoRef
        /\ \A i \in 1..Len(Submitted(p)) :
              Submitted(p)[i].seen = ExpectedNormalized(input[p])

\* Both calls were normalized before either returned, and the call that
\* started last returned first.
C9_Witness ==
    /\ Calls = {1, 2}
    /\ pc[1] = "returned" /\ pc[2] = "returned"
    /\ input[1] # <<>> /\ input[2] # <<>>
    /\ current_messages[1] = 3 /\ current_messages[2] = 4
    /\ updated_messages[2] = 5 /\ updated_messages[1] = 6
    /\ ReplyText(completion[1]) # ReplyText(completion[2])

\* C10: in a session where each call's input is the previous output with
\* user messages added at the end, the prompt is injected at most once (by
\* the first call, and only if the initial history did not start with a
\* system message): after n successful calls the conversation starts with
\* the system message it had after the first call, holds n more assistant
\* messages than the initial history, and contains every earlier
\* conversation as a contiguous block in unchanged order.
C10_SessionInjectsOnce ==
    \A p \in Calls :
        /\ \A i \in 1..Len(provider_log) :
              (provider_log[i].call = p /\ provider_log[i].turn >= 2) =>
                  provider_log[i].seen = trail[p][2 * provider_log[i].turn - 1]
        /\ pc[p] = "returned" =>
              LET conv == heap[updated_messages[p]]
                  h0 == trail[p][1]
                  first == trail[p][2]
              IN  /\ Len(trail[p]) = 2 * turn[p]
                  /\ conv = trail[p][Len(trail[p])]
                  /\ conv[1] = first[1]
                  /\ conv[1].role = "system"
                  /\ CountRole(conv, "assistant")
                        = CountRole(h0, "assistant") + turn[p]
                  /\ CountRole(conv, "system")
                        = CountRole(h0, "system")
                          + (IF h0 = <<>> \/ h0[1].role # "system" THEN 1 ELSE 0)
                  /\ \A k \in 2..Len(trail[p]) : IsPrefix(trail[p][k], conv)
                  /\ \E off \in {0, 1} : SubSeq(conv, off + 1, off + Len(h0)) = h0

C10_Witness ==
    \E p \in Calls :
        /\ pc[p] = "returned"
        /\ turn[p] = 2
        /\ trail[p][1] # <<>> /\ trail[p][1][1].role = "user"
        /\ CountRole(heap[updated_messages[p]], "system") = 1
        /\ CountRole(heap[updated_messages[p]], "assistant") = 2

====
